---- MODULE Spec2Model ----
(***************************************************************************)
(* A model of superflore's PKGBUILD generator:                             *)
(*   superflore/generators/pkgbuild/pkgbuild.py      (class PkgBuild)      *)
(*   superflore/generators/pkgbuild/gen_packages.py  (regenerate_pkg,      *)
(*       _gen_pkgbuild_for_package, class arch_pkgbuild)                   *)
(*                                                                         *)
(* Python strings that the code takes apart (the version) are sequences of *)
(* one-character strings; names that the code only compares and stores are *)
(* TLA+ strings.  Python's None is the record None.                        *)
(***************************************************************************)
EXTENDS Naturals, Sequences, FiniteSets

VARIABLES
    pc,            \* position of the running call
    pkg,           \* regenerate_pkg: argument pkg
    preserve,      \* regenerate_pkg: argument preserve_existing
    files,         \* the overlay repository's files of this package
    removed,       \* files handed to overlay.repo.remove_file so far
    version,       \* regenerate_pkg: local version
    has_patches,   \* regenerate_pkg: local has_patches
    pb,            \* the PkgBuild object (None before it is constructed)
    todo,          \* _gen_pkgbuild_for_package: names the four loops still have to visit
    walked,        \* _gen_pkgbuild_for_package: what get_depends returned, per type
    calls,         \* history of the add_*_depend calls made on pb
    fetched,       \* outcome of the package.xml fetch: "none", "ok" or "failed"
    rendered,      \* outcome of get_pkgbuild_text
    written,       \* text written to the PKGBUILD file (None: nothing written)
    result         \* outcome of regenerate_pkg

vars == <<pc, pkg, preserve, files, removed, version, has_patches, pb, todo,
          walked, calls, fetched, rendered, written, result>>

None == [kind |-> "None"]

----------------------------------------------------------------------------
(* Bounds of the model *)

\* largest number of names the four get_depends calls return together
MaxDeps == 4
\* largest number of add_*_depend calls in a free call sequence
MaxCalls == 3
\* longest version string drawn from VersionChars
MaxVerLen == 4

----------------------------------------------------------------------------
(* Values the model draws inputs from *)

\* pkgbuild.py: depend_only_pkgs
depend_only_pkgs == {"dev-util/gperf", "app-doc/doxygen", "virtual/pkgconfig"}

\* gen_packages.py: no_python3
no_python3 == {"tf"}

\* get_package_names(distro)[0]: the distribution's package-name index
pkg_names == {"tf", "roscpp"}

\* package names regenerate_pkg is asked for: two of the index, one absent
Requested == {"tf", "roscpp", "not_a_pkg"}

\* dependency names: one of the index, a host package with the python3
\* prefix, one of depend_only_pkgs
DepNames == {"roscpp", "python3-numpy", "dev-util/gperf"}

\* build types a package.xml may declare: the four known ones and another
BuildTypes == {"catkin", "cmake", "ament_python", "ament_cmake", "unknown"}

VersionChars == {"1", "r", "-"}

RECURSIVE StringsUpTo(_)
StringsUpTo(n) ==
    IF n = 0 THEN {<<>>}
    ELSE LET shorter == StringsUpTo(n - 1)
         IN  shorter \cup {Append(s, c) : s \in shorter, c \in VersionChars}

V_1_2_3_r4 == <<"1", ".", "2", ".", "3", "-", "r", "4">>
V_0_9_0_p10 == <<"0", ".", "9", ".", "0", "-", "p", "1", "0">>
V_1_2_3 == <<"1", ".", "2", ".", "3">>

\* version strings given to the renderer
Versions == StringsUpTo(MaxVerLen) \cup {V_1_2_3_r4, V_0_9_0_p10}

\* versions get_pkg_version returns in the regenerate_pkg model: with and
\* without a release increment
PkgVersions == {V_1_2_3_r4, V_1_2_3}

\* build types PackageMetadata gives in the regenerate_pkg model
MetaBuildTypes == {"ament_cmake", "unknown"}

\* the overlay's files of one package before the call: the recipe
\* regenerate_pkg looks for (pkgbuild_name) and the Manifest
OverlayFiles == {"pkg.pkgbuild", "Manifest"}

\* glob('%s*.pkgbuild' % prefix) matches f
IsPkgbuild(f) == f = "pkg.pkgbuild"

----------------------------------------------------------------------------
(* Python helpers *)

\* x in list
In(x, list) == \E i \in 1..Len(list) : list[i] = x

\* s[1:]
DropFirst(s) == IF Len(s) = 0 THEN <<>> ELSE Tail(s)

\* index of the first sep in s, 0 when there is none
RECURSIVE FindFrom(_, _, _)
FindFrom(s, sep, i) ==
    IF i > Len(s) THEN 0
    ELSE IF s[i] = sep THEN i
    ELSE FindFrom(s, sep, i + 1)

\* s.split(sep): the segments between the occurrences of sep, in order
RECURSIVE Split(_, _)
Split(s, sep) ==
    LET i == FindFrom(s, sep, 1)
    IN  IF i = 0 THEN <<s>>
        ELSE <<SubSeq(s, 1, i - 1)>> \o Split(SubSeq(s, i + 1, Len(s)), sep)

\* superflore.utils.sanitize_string followed by trim_string, on the
\* descriptions the model uses (both shorter than the trimmed length)
SanitizeTrim(description) ==
    IF description = "Foo (bar) [baz]" THEN "Foo bar baz" ELSE description

\* dep.replace("python3", "python", 1) if dep.startswith("python3") else dep
Python3ToPython(dep) ==
    IF dep = <<"python3-numpy">> THEN <<"python-numpy">> ELSE dep

----------------------------------------------------------------------------
(* class PkgBuild *)

\* PkgBuild.__init__ (eapi, cmake_package, base_yml and illegal_desc_chars,
\* which nothing modelled here reads or changes, are left out)
PkgBuildInit ==
    [kind              |-> "PkgBuild",
     description       |-> "",
     homepage          |-> "https://wiki.ros.org",
     src_uri           |-> None,
     upstream_license  |-> <<"LGPL-2">>,
     keys              |-> <<>>,
     rdepends          |-> <<>>,
     rdepends_external |-> <<>>,
     depends           |-> <<>>,
     depends_external  |-> <<>>,
     tdepends          |-> <<>>,
     tdepends_external |-> <<>>,
     distro            |-> None,
     version           |-> None,
     unresolved_deps   |-> <<>>,
     name              |-> None,
     has_patches       |-> FALSE,
     build_type        |-> "catkin",
     is_ros2           |-> FALSE,
     python_3          |-> TRUE,
     patches           |-> <<>>]

\* the six dependency lists of a PkgBuild
Buckets(self) ==
    [depends           |-> self.depends,
     depends_external  |-> self.depends_external,
     rdepends          |-> self.rdepends,
     rdepends_external |-> self.rdepends_external,
     tdepends          |-> self.tdepends,
     tdepends_external |-> self.tdepends_external]

AddBuildDepend_no_external_check(self, depend, internal) ==
    IF In(depend, self.rdepends) THEN self
    ELSE IF internal
    THEN [self EXCEPT !.depends = Append(@, depend)]
    ELSE [self EXCEPT !.depends_external = Append(@, depend)]

AddBuildDepend_no_run_check(self, depend, internal) ==
    IF internal
    THEN [self EXCEPT !.depends = Append(@, depend)]
    ELSE [self EXCEPT !.depends_external = Append(@, depend)]

AddBuildDepend_drops_external(self, depend, internal) ==
    IF In(depend, self.rdepends) THEN self
    ELSE IF In(depend, self.rdepends_external) THEN self
    ELSE IF internal
    THEN [self EXCEPT !.depends = Append(@, depend)]
    ELSE self

\* PkgBuild.add_build_depend
AddBuildDepend(self, depend, internal) ==
    IF In(depend, self.rdepends) THEN self
    ELSE IF In(depend, self.rdepends_external) THEN self
    ELSE IF internal
    THEN [self EXCEPT !.depends = Append(@, depend)]
    ELSE [self EXCEPT !.depends_external = Append(@, depend)]

AddRunDepend_no_special_case(self, rdepend, internal) ==
    IF internal
    THEN [self EXCEPT !.rdepends = Append(@, rdepend)]
    ELSE [self EXCEPT !.rdepends_external = Append(@, rdepend)]

\* PkgBuild.add_run_depend
AddRunDepend(self, rdepend, internal) ==
    IF rdepend \in depend_only_pkgs /\ ~internal
    THEN [self EXCEPT !.depends_external = Append(@, rdepend)]
    ELSE IF internal
    THEN [self EXCEPT !.rdepends = Append(@, rdepend)]
    ELSE [self EXCEPT !.rdepends_external = Append(@, rdepend)]

\* PkgBuild.add_test_depend
AddTestDepend(self, tdepend, internal) ==
    IF ~internal
    THEN [self EXCEPT !.tdepends_external = Append(@, tdepend)]
    ELSE [self EXCEPT !.tdepends = Append(@, tdepend)]

\* PkgBuild.add_keyword, with pkgbuild_keyword.__init__
AddKeyword(self, keyword, stable) ==
    [self EXCEPT !.keys = Append(@, [arch |-> keyword, stable |-> stable])]

\* PkgBuild.get_inherit_line
GetInheritLine(self) ==
    IF self.build_type \in {"catkin", "cmake"}
    THEN [kind |-> "line", line |-> "inherit ros-cmake"]
    ELSE IF self.build_type = "ament_python"
    THEN [kind |-> "line", line |-> "inherit ament-python"]
    ELSE IF self.build_type = "ament_cmake"
    THEN [kind |-> "line", line |-> "inherit ament-cmake"]
    ELSE [kind |-> "raise", exc |-> "UnknownBuildType"]

\* PkgBuild.get_unresolved
GetUnresolved(self) == self.unresolved_deps

\* get_pkgbuild_text: version_str = self.version.split("-")[0]
VersionStr(v) == Split(v, "-")[1]

Rc_keeps_tag(v) == Split(v, "-")[2]

\* get_pkgbuild_text: rc = self.version.split("-")[1][1:]
Rc(v) == DropFirst(Split(v, "-")[2])

\* get_pkgbuild_text: the makedepends / depends entries built from an
\* internal and an external bucket
DependencyEntries(distro, internal, external) ==
    LET ros == [i \in 1..Len(internal) |-> <<"ros-", distro, "-", internal[i]>>]
        all == ros \o [i \in 1..Len(external) |-> <<external[i]>>]
    IN  [i \in 1..Len(all) |-> Python3ToPython(all[i])]

\* PkgBuild.get_pkgbuild_text: what the call leaves in self
GetPkgbuildTextSelf(self) ==
    [self EXCEPT !.description = SanitizeTrim(@)]

\* PkgBuild.get_pkgbuild_text: the text returned, as its fields, or the
\* exception raised
GetPkgbuildText(self) ==
    IF Len(Split(self.version, "-")) < 2
    THEN [kind |-> "raise", exc |-> "IndexError"]
    ELSE [kind        |-> "text",
          pkgname     |-> <<"ros-", self.distro, "-", self.name>>,
          pkgdesc     |-> SanitizeTrim(self.description),
          url         |-> self.homepage,
          pkgver      |-> VersionStr(self.version),
          pkgrel      |-> Rc(self.version),
          license     |-> self.upstream_license,
          makedepends |-> DependencyEntries(self.distro, self.depends,
                                            self.depends_external),
          depends     |-> DependencyEntries(self.distro, self.rdepends,
                                            self.rdepends_external),
          source      |-> <<self.distro, self.name, self.version, self.src_uri>>]

----------------------------------------------------------------------------
(* Calls on one PkgBuild object, in any order: specification SpecApi *)

BucketNames ==
    {"depends", "depends_external", "rdepends", "rdepends_external",
     "tdepends", "tdepends_external"}

\* the bucket a call appended to, "none" when it appended to none
GrownBucket(old, new) ==
    IF \E b \in BucketNames : Len(new[b]) > Len(old[b])
    THEN CHOOSE b \in BucketNames : Len(new[b]) > Len(old[b])
    ELSE "none"

\* one entry of the call history: the method, the loop of
\* _gen_pkgbuild_for_package that made the call ("none" outside it), the
\* arguments, and the bucket the call appended to
Call(op, loop, depend, internal, old, new) ==
    [op |-> op, loop |-> loop, name |-> depend, internal |-> internal,
     into |-> GrownBucket(old, new)]

NoDeps == [buildtool |-> {}, build |-> {}, run |-> {}, test |-> {}]

InitApi ==
    /\ pc = "api"
    /\ pb = PkgBuildInit
    /\ calls = <<>>
    /\ pkg = None /\ preserve = FALSE /\ files = {} /\ removed = {}
    /\ version = None /\ has_patches = FALSE
    /\ todo = NoDeps /\ walked = NoDeps
    /\ fetched = "none" /\ rendered = None /\ written = None /\ result = None

ApiFrame ==
    UNCHANGED <<pc, pkg, preserve, files, removed, version, has_patches, todo,
                walked, fetched, rendered, written, result>>

CallAddBuildDepend ==
    /\ pc = "api" /\ Len(calls) < MaxCalls
    /\ \E depend \in DepNames, internal \in BOOLEAN :
          /\ pb' = AddBuildDepend(pb, depend, internal)
          /\ calls' = Append(calls, Call("add_build_depend", "none", depend, internal, pb, pb'))
    /\ ApiFrame

CallAddRunDepend ==
    /\ pc = "api" /\ Len(calls) < MaxCalls
    /\ \E rdepend \in DepNames, internal \in BOOLEAN :
          /\ pb' = AddRunDepend(pb, rdepend, internal)
          /\ calls' = Append(calls, Call("add_run_depend", "none", rdepend, internal, pb, pb'))
    /\ ApiFrame

CallAddTestDepend ==
    /\ pc = "api" /\ Len(calls) < MaxCalls
    /\ \E tdepend \in DepNames, internal \in BOOLEAN :
          /\ pb' = AddTestDepend(pb, tdepend, internal)
          /\ calls' = Append(calls, Call("add_test_depend", "none", tdepend, internal, pb, pb'))
    /\ ApiFrame

NextApi == CallAddBuildDepend \/ CallAddRunDepend \/ CallAddTestDepend

SpecApi == InitApi /\ [][NextApi]_vars

----------------------------------------------------------------------------
(* get_pkgbuild_text on a PkgBuild whose version and build_type fields were
   assigned: specification SpecRender *)

InitRender ==
    /\ pc = "render_call"
    /\ \E v \in Versions, b \in BuildTypes :
          pb = [PkgBuildInit EXCEPT !.version = v, !.build_type = b]
    /\ calls = <<>>
    /\ pkg = None /\ preserve = FALSE /\ files = {} /\ removed = {}
    /\ version = None /\ has_patches = FALSE
    /\ todo = NoDeps /\ walked = NoDeps
    /\ fetched = "none" /\ rendered = None /\ written = None /\ result = None

CallGetPkgbuildText ==
    /\ pc = "render_call"
    /\ rendered' = GetPkgbuildText(pb)
    /\ pb' = GetPkgbuildTextSelf(pb)
    /\ pc' = "render_done"
    /\ UNCHANGED <<pkg, preserve, files, removed, version, has_patches, todo,
                   walked, calls, fetched, written, result>>

NextRender == CallGetPkgbuildText

SpecRender == InitRender /\ [][NextRender]_vars

----------------------------------------------------------------------------
(* regenerate_pkg, with arch_pkgbuild and _gen_pkgbuild_for_package:
   specification Spec *)

Raise(exc) == [kind |-> "raise", exc |-> exc]
Return(current, second, third) ==
    [kind |-> "return", current |-> current, second |-> second, third |-> third]

Init ==
    /\ pc = "start"
    /\ pkg \in Requested
    /\ preserve \in BOOLEAN
    /\ files \in SUBSET OverlayFiles
    /\ removed = {}
    /\ version = None /\ has_patches = FALSE
    /\ pb = None
    /\ todo = NoDeps /\ walked = NoDeps
    /\ calls = <<>>
    /\ fetched = "none" /\ rendered = None /\ written = None /\ result = None

UnknownPackage_never(p) == FALSE

\* regenerate_pkg: pkg not in pkg_names
UnknownPackage(p) == p \notin pkg_names

\* regenerate_pkg, up to the check of the package name
Lookup ==
    /\ pc = "start"
    /\ version' \in PkgVersions
    /\ has_patches' \in BOOLEAN
    /\ IF UnknownPackage(pkg)
       THEN pc' = "done" /\ result' = Raise("RuntimeError: Unknown package")
       ELSE pc' = "existing" /\ UNCHANGED result
    /\ UNCHANGED <<pkg, preserve, files, removed, pb, todo, walked, calls,
                   fetched, rendered, written>>

\* regenerate_pkg: previous_version, from the recipe that was removed
PreviousVersion(gone) ==
    IF \E f \in gone : IsPkgbuild(f)
    THEN CHOOSE f \in gone : IsPkgbuild(f)
    ELSE None

\* regenerate_pkg: the existing recipe is kept (and the call returns) or
\* removed together with the Manifest
Existing ==
    /\ pc = "existing"
    /\ LET existing == {f \in files : IsPkgbuild(f)}
       IN  IF preserve /\ "pkg.pkgbuild" \in files
           THEN /\ pc' = "done"
                /\ result' = Return(None, <<>>, None)
                /\ UNCHANGED <<files, removed>>
           ELSE IF existing # {}
           THEN /\ \E first \in existing :
                      /\ files' = files \ {first, "Manifest"}
                      /\ removed' = removed \cup {first, "Manifest"}
                /\ pc' = "construct"
                /\ UNCHANGED result
           ELSE /\ pc' = "construct"
                /\ UNCHANGED <<files, removed, result>>
    /\ UNCHANGED <<pkg, preserve, version, has_patches, pb, todo, walked,
                   calls, fetched, rendered, written>>

NextLoop_spec_order(t) ==
    IF t.buildtool # {} THEN "buildtool"
    ELSE IF t.build # {} THEN "build"
    ELSE IF t.run # {} THEN "run"
    ELSE IF t.test # {} THEN "test"
    ELSE "fetch"

\* _gen_pkgbuild_for_package: the loop that runs next, given the names still
\* to visit: run, build, buildtool, test, then the rest of the function
NextLoop(t) ==
    IF t.run # {} THEN "run"
    ELSE IF t.build # {} THEN "build"
    ELSE IF t.buildtool # {} THEN "buildtool"
    ELSE IF t.test # {} THEN "test"
    ELSE "fetch"

DepTypes == {"buildtool", "build", "run", "test"}

\* what the four DependencyWalker.get_depends calls may return
DependSets ==
    {w \in [DepTypes -> SUBSET DepNames] :
        Cardinality(w.buildtool) + Cardinality(w.build)
            + Cardinality(w.run) + Cardinality(w.test) <= MaxDeps}

\* arch_pkgbuild.__init__ up to the call of _gen_pkgbuild_for_package, and
\* that function up to its first loop
Construct ==
    /\ pc = "construct"
    /\ pb' = [PkgBuildInit EXCEPT !.distro = "noetic", !.src_uri = "uri"]
    /\ walked' \in DependSets
    /\ todo' = walked'
    /\ pc' = NextLoop(todo')
    /\ UNCHANGED <<pkg, preserve, files, removed, version, has_patches, calls,
                   fetched, rendered, written, result>>

\* regenerate_pkg: an exception of the look-ups arch_pkgbuild starts with is
\* reported and raised again
ConstructFails ==
    /\ pc = "construct"
    /\ pc' = "done"
    /\ result' = Raise("Exception")
    /\ UNCHANGED <<pkg, preserve, files, removed, version, has_patches, pb,
                   todo, walked, calls, fetched, rendered, written>>

LoopFrame ==
    UNCHANGED <<pkg, preserve, files, removed, version, has_patches, walked,
                fetched, rendered, written, result>>

\* for rdep in pkg_run_deps
AddRunDeps ==
    /\ pc = "run"
    /\ \E rdep \in todo.run :
          /\ pb' = AddRunDepend(pb, rdep, rdep \in pkg_names)
          /\ todo' = [todo EXCEPT !.run = @ \ {rdep}]
          /\ calls' = Append(calls, Call("add_run_depend", "run", rdep,
                                         rdep \in pkg_names, pb, pb'))
    /\ pc' = NextLoop(todo')
    /\ LoopFrame

\* for bdep in pkg_build_deps
AddBuildDeps ==
    /\ pc = "build"
    /\ \E bdep \in todo.build :
          /\ pb' = AddBuildDepend(pb, bdep, bdep \in pkg_names)
          /\ todo' = [todo EXCEPT !.build = @ \ {bdep}]
          /\ calls' = Append(calls, Call("add_build_depend", "build", bdep,
                                         bdep \in pkg_names, pb, pb'))
    /\ pc' = NextLoop(todo')
    /\ LoopFrame

\* for tdep in pkg_buildtool_deps
AddBuildtoolDeps ==
    /\ pc = "buildtool"
    /\ \E tdep \in todo.buildtool :
          /\ pb' = AddBuildDepend(pb, tdep, tdep \in pkg_names)
          /\ todo' = [todo EXCEPT !.buildtool = @ \ {tdep}]
          /\ calls' = Append(calls, Call("add_build_depend", "buildtool", tdep,
                                         tdep \in pkg_names, pb, pb'))
    /\ pc' = NextLoop(todo')
    /\ LoopFrame

\* for test_dep in pkg_test_deps
AddTestDeps ==
    /\ pc = "test"
    /\ \E test_dep \in todo.test :
          /\ pb' = AddTestDepend(pb, test_dep, test_dep \in pkg_names)
          /\ todo' = [todo EXCEPT !.test = @ \ {test_dep}]
          /\ calls' = Append(calls, Call("add_test_depend", "test", test_dep,
                                         test_dep \in pkg_names, pb, pb'))
    /\ pc' = NextLoop(todo')
    /\ LoopFrame

\* for key in pkg_keywords
AddKeywords(self) ==
    AddKeyword(AddKeyword(AddKeyword(AddKeyword(self, "x86", FALSE),
                                     "amd64", FALSE), "arm", FALSE),
               "arm64", FALSE)

FetchFailed_fresh_model(self) == PkgBuildInit

\* _gen_pkgbuild_for_package: except Exception: warn(...); return pkg_pkgbuild
FetchFailed(self) == self

\* _gen_pkgbuild_for_package: the four assignments from PackageMetadata
FetchSucceeded(self, build_type) ==
    [self EXCEPT !.upstream_license = <<"BSD">>,
                 !.description = "Foo (bar) [baz]",
                 !.homepage = "https://example.org",
                 !.build_type = build_type]

\* _gen_pkgbuild_for_package from the keywords on: the fetch of package.xml
\* fails, or succeeds and PackageMetadata gives the descriptive fields
Fetch ==
    /\ pc = "fetch"
    /\ \/ /\ fetched' = "failed"
          /\ pb' = FetchFailed(AddKeywords(pb))
       \/ /\ fetched' = "ok"
          /\ \E build_type \in MetaBuildTypes :
                pb' = FetchSucceeded(AddKeywords(pb), build_type)
    /\ pc' = "built"
    /\ UNCHANGED <<pkg, preserve, files, removed, version, has_patches, todo,
                   walked, calls, rendered, written, result>>

\* glob('%s/*.patch' % patch_path) when patch_path exists, else None
Patches(exists) == IF exists THEN <<"files/*.patch">> ELSE None

\* arch_pkgbuild.__init__ after _gen_pkgbuild_for_package returned
ArchPkgbuildEnd ==
    /\ pc = "built"
    /\ pb' = [pb EXCEPT !.has_patches = has_patches,
                        !.python_3 = IF pkg \in no_python3 THEN FALSE ELSE @]
    /\ pc' = "constructed"
    /\ UNCHANGED <<pkg, preserve, files, removed, version, has_patches, todo,
                   walked, calls, fetched, rendered, written, result>>

\* regenerate_pkg: the four assignments to current.pkgbuild
SetFields ==
    /\ pc = "constructed"
    /\ pb' = [pb EXCEPT !.name = pkg, !.version = version,
                        !.patches = Patches(has_patches), !.is_ros2 = FALSE]
    /\ pc' = "render"
    /\ UNCHANGED <<pkg, preserve, files, removed, version, has_patches, todo,
                   walked, calls, fetched, rendered, written, result>>

\* regenerate_pkg: current.pkgbuild_text() and its two except clauses
Render ==
    /\ pc = "render"
    /\ rendered' = GetPkgbuildText(pb)
    /\ pb' = GetPkgbuildTextSelf(pb)
    /\ IF rendered'.kind = "raise"
       THEN /\ pc' = "done"
            /\ result' = IF rendered'.exc = "UnresolvedDependency"
                         THEN Return(None, GetUnresolved(pb'), None)
                         ELSE rendered'
       ELSE /\ pc' = "write"
            /\ UNCHANGED result
    /\ UNCHANGED <<pkg, preserve, files, removed, version, has_patches, todo,
                   walked, calls, fetched, written>>

\* regenerate_pkg: make_dir and the write of the PKGBUILD file, which
\* succeed or raise
Write ==
    /\ pc = "write"
    /\ \/ /\ written' = rendered
          /\ files' = files \cup {"PKGBUILD"}
          /\ result' = Return(pb, PreviousVersion(removed), pkg)
       \/ /\ result' = Raise("Exception")
          /\ UNCHANGED <<written, files>>
    /\ pc' = "done"
    /\ UNCHANGED <<pkg, preserve, removed, version, has_patches, pb, todo,
                   walked, calls, fetched, rendered>>

Next ==
    \/ Lookup \/ Existing \/ Construct \/ ConstructFails
    \/ AddRunDeps \/ AddBuildDeps \/ AddBuildtoolDeps \/ AddTestDeps
    \/ Fetch \/ ArchPkgbuildEnd \/ SetFields \/ Render \/ Write

Spec == Init /\ [][Next]_vars

----------------------------------------------------------------------------
(* Properties *)

\* the buckets among names that hold d
Holding(self, d, names) == {b \in names : In(d, Buckets(self)[b])}

BuildRunBuckets == {"depends", "depends_external", "rdepends", "rdepends_external"}
TestBuckets == {"tdepends", "tdepends_external"}

\* the names the four get_depends calls returned
WalkedNames == walked.buildtool \cup walked.build \cup walked.run \cup walked.test

\* the dependency loops of _gen_pkgbuild_for_package are over
PassDone ==
    /\ pb # None
    /\ pc \in {"fetch", "built", "constructed", "render", "write", "done"}

\* C1 as claimed: every dependency name is in at most one of the six buckets.
C1_AtMostOneOfSix ==
    pb # None =>
        \A d \in DepNames : Cardinality(Holding(pb, d, BucketNames)) <= 1

\* C1, amended: in every state of the dependency pass of
\* _gen_pkgbuild_for_package, every dependency name is in at most one of the
\* four build and run buckets and in at most one of the two test buckets
\* (a test bucket may share a name with a build or run bucket).
C1_BuildRunDisjoint ==
    pb # None =>
        \A d \in DepNames :
            /\ Cardinality(Holding(pb, d, BuildRunBuckets)) <= 1
            /\ Cardinality(Holding(pb, d, TestBuckets)) <= 1

\* C1 witness: the pass is over for a name requested as run, build and test
\* dependency, which is in a run bucket and in a test bucket
C1_Witness ==
    /\ PassDone
    /\ \E d \in walked.run \cap walked.build \cap walked.test :
          /\ Holding(pb, d, BuildRunBuckets) \in {{"rdepends"}, {"rdepends_external"}}
          /\ Holding(pb, d, TestBuckets) # {}

\* the first call on a fresh PkgBuild was add_run_depend
FreshRunCall ==
    pc = "api" /\ Len(calls) = 1 /\ calls[1].op = "add_run_depend"

\* C2 as claimed: after add_run_depend(d, isInternal) on a fresh model d is in
\* exactly one of rdepends / rdepends_external, and a name of depend_only_pkgs
\* added with isInternal = false is in rdepends_external.
C2_ExactlyOneRunBucket ==
    FreshRunCall =>
        LET d == calls[1].name
        IN  /\ Cardinality(Holding(pb, d, {"rdepends", "rdepends_external"})) = 1
            /\ (d \in depend_only_pkgs /\ ~calls[1].internal)
                   => In(d, pb.rdepends_external)

\* C2, amended: after add_run_depend(d, isInternal) on a fresh model d is in
\* exactly one bucket: depends_external when d is in depend_only_pkgs and
\* isInternal is false, otherwise rdepends when isInternal and
\* rdepends_external when not.
C2_RunRouting ==
    FreshRunCall =>
        LET d == calls[1].name
        IN  Holding(pb, d, BucketNames) =
                IF d \in depend_only_pkgs /\ ~calls[1].internal
                THEN {"depends_external"}
                ELSE IF calls[1].internal THEN {"rdepends"}
                ELSE {"rdepends_external"}

\* C2 witness: a name of depend_only_pkgs was added as an external run
\* dependency to a fresh model
C2_Witness ==
    /\ FreshRunCall
    /\ calls[1].name \in depend_only_pkgs
    /\ ~calls[1].internal
    /\ pb.depends_external = <<calls[1].name>>

\* C3: add_build_depend(d, y) of a name d that an earlier add_run_depend call
\* appended to rdepends or rdepends_external leaves the six buckets unchanged.
C3_BuildAfterRunIsNoOp ==
    [][(/\ Len(calls') = Len(calls) + 1
        /\ calls'[Len(calls')].op = "add_build_depend"
        /\ \E i \in 1..Len(calls) :
              /\ calls[i].op = "add_run_depend"
              /\ calls[i].name = calls'[Len(calls')].name
              /\ calls[i].into \in {"rdepends", "rdepends_external"})
       => Buckets(pb') = Buckets(pb)]_vars

\* C3 witness: a name went to a run bucket, another insertion followed, and
\* then add_build_depend of the name with the other flag appended nothing
C3_Witness ==
    /\ Len(calls) = 3
    /\ calls[1].op = "add_run_depend"
    /\ calls[1].into = "rdepends_external"
    /\ calls[2].into # "none"
    /\ calls[3].op = "add_build_depend"
    /\ calls[3].name = calls[1].name
    /\ calls[3].internal
    /\ calls[3].into = "none"

HasDash(v) == \E i \in 1..Len(v) : v[i] = "-"
FirstDash(v) ==
    CHOOSE i \in 1..Len(v) : v[i] = "-" /\ \A j \in 1..(i - 1) : v[j] # "-"
BeforeFirstDash(v) == SubSeq(v, 1, FirstDash(v) - 1)
AfterFirstDash(v) == SubSeq(v, FirstDash(v) + 1, Len(v))
WithoutFirstChar(s) == SubSeq(s, 2, Len(s))
UpToDash(s) == IF HasDash(s) THEN BeforeFirstDash(s) ELSE s

\* C4 as claimed: get_pkgbuild_text raises UnknownBuildType, and returns no
\* text, when build_type is none of catkin, cmake, ament_python, ament_cmake,
\* and does not raise it when build_type is one of them (stated for the
\* versions that are well formed: a '-' followed by a tag letter and more).
C4_UnknownBuildTypeRaises ==
    (/\ pc = "render_done"
     /\ HasDash(pb.version)
     /\ Len(AfterFirstDash(pb.version)) > 1) =>
        IF pb.build_type \in {"catkin", "cmake", "ament_python", "ament_cmake"}
        THEN rendered # [kind |-> "raise", exc |-> "UnknownBuildType"]
        ELSE rendered = [kind |-> "raise", exc |-> "UnknownBuildType"]

C6_PkgrelIsRestOfVersion ==
    (pc = "render_done" /\ HasDash(pb.version)) =>
        /\ rendered.kind = "text"
        /\ rendered.pkgver = BeforeFirstDash(pb.version)
        /\ rendered.pkgrel = WithoutFirstChar(AfterFirstDash(pb.version))

\* C6, amended: for a version with a '-', pkgver is the text before the first
\* '-' and pkgrel is the segment between the first '-' and the second '-' (or
\* the end of the version when there is no second one) without its first
\* character; "1.2.3-r4" gives 1.2.3 / 4 and "0.9.0-p10" gives 0.9.0 / 10.
C6_PkgrelIsSecondSegment ==
    (pc = "render_done" /\ HasDash(pb.version)) =>
        /\ rendered.kind = "text"
        /\ rendered.pkgver = BeforeFirstDash(pb.version)
        /\ rendered.pkgrel = WithoutFirstChar(UpToDash(AfterFirstDash(pb.version)))
        /\ pb.version = V_1_2_3_r4 =>
              /\ rendered.pkgver = <<"1", ".", "2", ".", "3">>
              /\ rendered.pkgrel = <<"4">>
        /\ pb.version = V_0_9_0_p10 =>
              /\ rendered.pkgver = <<"0", ".", "9", ".", "0">>
              /\ rendered.pkgrel = <<"1", "0">>

\* C6 witness: a version with two '-' was rendered, with a pkgrel that is not
\* empty
C6_Witness ==
    /\ pc = "render_done"
    /\ HasDash(pb.version) /\ HasDash(AfterFirstDash(pb.version))
    /\ rendered.kind = "text"
    /\ rendered.pkgrel # <<>>

\* C7 as claimed: rendering a version without '-', or one whose release
\* segment has nothing after its tag letter, raises and returns no text.
C7_MalformedVersionRaises ==
    (/\ pc = "render_done"
     /\ \/ ~HasDash(pb.version)
        \/ Len(AfterFirstDash(pb.version)) <= 1)
        => rendered.kind = "raise"

LoopRank(loop) ==
    CASE loop = "run" -> 1
      [] loop = "build" -> 2
      [] loop = "buildtool" -> 3
      [] loop = "test" -> 4

\* the add_*_depend method, the flag and the names of the calls are those of
\* the four loops
CallsMatchLoops ==
    /\ \A i \in 1..Len(calls) :
          /\ calls[i].op = CASE calls[i].loop = "run" -> "add_run_depend"
                             [] calls[i].loop \in {"build", "buildtool"}
                                    -> "add_build_depend"
                             [] calls[i].loop = "test" -> "add_test_depend"
          /\ calls[i].internal = (calls[i].name \in pkg_names)
          /\ calls[i].name \in walked[calls[i].loop]
    /\ PassDone =>
          \A t \in DepTypes : \A d \in walked[t] :
              Cardinality({i \in 1..Len(calls) :
                              calls[i].loop = t /\ calls[i].name = d}) = 1

\* C8 as claimed: every add_build_depend call (buildtool and build names)
\* comes before the first add_run_depend call, and every add_run_depend call
\* before the first add_test_depend call; buildtool and build names go through
\* add_build_depend, each name internal exactly when it is in pkg_names.
C8_BuildBeforeRun ==
    /\ \A i, j \in 1..Len(calls) :
          i < j =>
              /\ ~(calls[i].op = "add_run_depend" /\ calls[j].op = "add_build_depend")
              /\ ~(calls[i].op = "add_test_depend" /\ calls[j].op = "add_run_depend")
    /\ CallsMatchLoops

\* C8, amended: the calls come in the order run, build, buildtool, test: every
\* add_run_depend call comes before the first add_build_depend call, the calls
\* for build names before those for buildtool names, and every
\* add_build_depend call before the first add_test_depend call; buildtool and
\* build names go through add_build_depend, each name internal exactly when it
\* is in pkg_names, and each requested name is passed once per type.
C8_RunBuildBuildtoolTest ==
    /\ \A i, j \in 1..Len(calls) :
          i < j => LoopRank(calls[i].loop) <= LoopRank(calls[j].loop)
    /\ CallsMatchLoops

\* C8 witness: the pass is over and each of the four loops made a call
C8_Witness ==
    /\ PassDone
    /\ \A t \in DepTypes : \E i \in 1..Len(calls) : calls[i].loop = t

\* the names the calls appended to bucket b, in the order of the calls
AppendedTo(b) ==
    LET Into(c) == c.into = b
        cs == SelectSeq(calls, Into)
    IN  [i \in 1..Len(cs) |-> cs[i].name]

\* C9: when the fetch of package.xml fails, _gen_pkgbuild_for_package raises
\* nothing and returns a model whose buckets hold what the loops appended and
\* whose upstream_license, description, homepage and build_type are those of
\* the constructor; arch_pkgbuild then sets has_patches and python_3.
C9_FetchFailureKeepsClassification ==
    (fetched = "failed" /\ pc \in {"built", "constructed"}) =>
        /\ result = None
        /\ \A b \in BucketNames : Buckets(pb)[b] = AppendedTo(b)
        /\ pb.upstream_license = PkgBuildInit.upstream_license
        /\ pb.description = PkgBuildInit.description
        /\ pb.homepage = PkgBuildInit.homepage
        /\ pb.build_type = PkgBuildInit.build_type
        /\ pc = "constructed" =>
              /\ pb.has_patches = has_patches
              /\ pb.python_3 = (pkg \notin no_python3)

\* C9 witness: the fetch failed for package tf, which has patches, after the
\* loops filled a build and a run bucket
C9_Witness ==
    /\ fetched = "failed" /\ pc = "constructed"
    /\ pkg = "tf" /\ has_patches
    /\ pb.rdepends # <<>> /\ pb.depends_external # <<>>
    /\ ~pb.python_3 /\ pb.has_patches

\* C10: regenerate_pkg of a package that is not in pkg_names ends with the
\* unknown-package error and removes no file, builds no model, renders and
\* writes nothing; a PKGBUILD is written only after the model was built and
\* rendered to a text, which is the text written.
C10_UnknownPackageNoSideEffect ==
    /\ (pkg \notin pkg_names /\ pc # "start") =>
          /\ pc = "done"
          /\ result = Raise("RuntimeError: Unknown package")
          /\ removed = {}
          /\ pb = None /\ calls = <<>>
          /\ rendered = None /\ written = None
          /\ "PKGBUILD" \notin files
    /\ (written # None \/ "PKGBUILD" \in files) =>
          /\ pkg \in pkg_names
          /\ pb # None
          /\ rendered.kind = "text"
          /\ written = rendered

\* C10 witness: the call for the unknown package is over and the recipe and
\* the Manifest it found are still there
C10_Witness ==
    /\ pkg = "not_a_pkg" /\ pc = "done"
    /\ files = OverlayFiles

====
